---------------------------- MODULE Spec2Model ----------------------------
(***************************************************************************)
(* GitAtomizer (gitatomizer.py): the bounded multi-head commit walk        *)
(* get_latest_commits, and the streaming Atom serializer                   *)
(* AtomBuilder.build_fragments with its overridable hooks.                 *)
(*                                                                         *)
(* Commit ids are the integers 1..NCommits.  A commit object is identified *)
(* with its id; its parents and commit_time are read from the repository   *)
(* (parents, ctime).  Text is a sequence of code points (unicode) or of    *)
(* bytes (str); literal fragments of the document are named tokens.        *)
(***************************************************************************)
EXTENDS Integers, Sequences, FiniteSets, TLC

\* ------------------------------------------------------------------ bounds
NCommits == 3
MaxCount == 3
MaxEntries == 2
MaxLen == 4

Commits == 1..NCommits

\* commit_time values: two suffice to order a child before or after its parent
Times == {1, 2}

\* default of the max_count parameter of get_latest_commits
DefaultMaxCount == 10

VARIABLES
    parents,    \* repository: commit id -> sequence of parent ids (Commit.parents)
    ctime,      \* repository: commit id -> Commit.commit_time
    heads,      \* the heads argument (a sequence of commit ids)
    max_count,  \* the max_count argument
    w,          \* locals of the running get_latest_commits call
    wpc,        \* "idle" | "loop" | "done": position in get_latest_commits
    result,     \* value returned by get_latest_commits
    cfg,        \* which optional hooks the builder class overrides or supplies
    linked,     \* commit id -> whether get_entry_link returns a link for it
    diff,       \* commit id -> outcome of `git show` (returncode, stdout)
    frame,      \* the suspended build_fragments generator: position and locals
    emitted,    \* fragments handed to the consumer so far
    hookLog,    \* every hook call made so far, in call order
    last,       \* the calls (hooks, repo.commit, git show) of the latest pull
    error,      \* exception raised out of build(), or NoError
    document,   \* value returned by build(), or NoDocument
    efield,     \* which field of the document a text value is emitted for
    evalue,     \* the text value a hook supplied for it
    eout        \* the bytes build_fragments emits for it

walkVars == <<parents, ctime, heads, max_count, w, wpc, result>>

feedVars == <<cfg, linked, diff, frame, emitted, hookLog, last, error, document>>

escVars == <<efield, evalue, eout>>

vars == <<walkVars, feedVars, escVars>>

\* ------------------------------------------------------------ sequences
Min(a, b) == IF a <= b THEN a ELSE b

Range(s) == {s[i] : i \in 1..Len(s)}

SeqsUpTo(S, n) == UNION {[1..k -> S] : k \in 0..n}

\* sequences over S of length <= n without a repeated element
DistinctSeqsUpTo(S, n) == {s \in SeqsUpTo(S, n) : Cardinality(Range(s)) = Len(s)}

\* ------------------------------------------------- get_latest_commits
\* locals after lines 33-35: commits = [], seen_hashes = set(),
\* queue = deque((head, 0) for head in heads).  resolved counts the
\* repo.commit(hash_) calls made for each id.
WalkStart(hs) ==
    [commits  |-> <<>>,
     seen     |-> {},
     queue    |-> [i \in 1..Len(hs) |-> <<hs[i], 0>>],
     resolved |-> [c \in Commits |-> 0]]

\* mutant: the seen check never hits
AlreadySeen_Never(hash, seen) == FALSE

\* line 38: if hash_ in seen_hashes: continue
AlreadySeen(hash, seen) == hash \in seen

\* mutant: the walk stops one level early
ShouldDescend_OneLevelLess(depth, mc) == depth + 1 < mc

\* line 43: if depth < max_count
ShouldDescend(depth, mc) == depth < mc

\* mutant: only the first parent is followed
ParentItems_FirstParentOnly(ps, depth) ==
    IF ps = <<>> THEN <<>> ELSE <<<<ps[1], depth + 1>>>>

\* lines 44-45: for parent in commit.parents: queue.append((parent, depth + 1))
ParentItems(ps, depth) == [i \in 1..Len(ps) |-> <<ps[i], depth + 1>>]

\* one iteration of the while loop, lines 37-45
WalkStep(st, par, mc) ==
    LET hash  == Head(st.queue)[1]
        depth == Head(st.queue)[2]
        rest  == Tail(st.queue)
    IN  IF AlreadySeen(hash, st.seen)
        THEN [st EXCEPT !.queue = rest]
        ELSE [commits  |-> Append(st.commits, hash),
              seen     |-> st.seen \cup {hash},
              queue    |-> IF ShouldDescend(depth, mc)
                           THEN rest \o ParentItems(par[hash], depth)
                           ELSE rest,
              resolved |-> [st.resolved EXCEPT ![hash] = @ + 1]]

\* mutant: reverse=True forgotten, oldest first
RECURSIVE InsertDesc_Ascending(_, _, _)
InsertDesc_Ascending(x, s, tm) ==
    IF s = <<>> THEN <<x>>
    ELSE IF tm[Head(s)] <= tm[x]
         THEN <<Head(s)>> \o InsertDesc_Ascending(x, Tail(s), tm)
         ELSE <<x>> \o s

\* list.sort(key=commit_time, reverse=True) is stable: equal keys keep their
\* input order.  Insert x behind every element whose time is >= x's.
RECURSIVE InsertDesc(_, _, _)
InsertDesc(x, s, tm) ==
    IF s = <<>> THEN <<x>>
    ELSE IF tm[Head(s)] >= tm[x]
         THEN <<Head(s)>> \o InsertDesc(x, Tail(s), tm)
         ELSE <<x>> \o s

RECURSIVE SortByTimeDesc(_, _)
SortByTimeDesc(s, tm) ==
    IF s = <<>> THEN <<>>
    ELSE InsertDesc(s[Len(s)], SortByTimeDesc(SubSeq(s, 1, Len(s) - 1), tm), tm)

\* mutant: the slice keeps one commit too many
Truncate_OneTooMany(s, mc) == SubSeq(s, 1, Min(mc + 1, Len(s)))

\* commits[:max_count] for max_count >= 0
Truncate(s, mc) == SubSeq(s, 1, Min(mc, Len(s)))

\* lines 47-49
WalkFinish(st, tm, mc) == Truncate(SortByTimeDesc(st.commits, tm), mc)

\* the whole call, as the feed's get_entries hook makes it
RECURSIVE WalkLoop(_, _, _)
WalkLoop(st, par, mc) ==
    IF st.queue = <<>> THEN st ELSE WalkLoop(WalkStep(st, par, mc), par, mc)

get_latest_commits(par, tm, mc, hs) == WalkFinish(WalkLoop(WalkStart(hs), par, mc), tm, mc)

\* ------------------------------------------------------------------ text
\* unicode text is a sequence of characters, an ASCII character written as a
\* one-character string and e-acute as "U+E9"; a UTF-8 byte string is a
\* sequence of bytes, an ASCII byte written as its character and the two
\* bytes of e-acute as "C3" and "A9".
None == <<>>

Utf8EncodeChar(c) == IF c = "U+E9" THEN <<"C3", "A9">> ELSE <<c>>

RECURSIVE Utf8Encode(_)
Utf8Encode(u) ==
    IF u = <<>> THEN <<>> ELSE Utf8EncodeChar(Head(u)) \o Utf8Encode(Tail(u))

\* str.replace(old, new) for a one-byte old
RECURSIVE Replace(_, _, _)
Replace(s, old, new) ==
    IF s = <<>> THEN <<>>
    ELSE (IF Head(s) = old THEN new ELSE <<Head(s)>>) \o Replace(Tail(s), old, new)

\* mutant: "&" replaced last, so the entities just written are escaped again
xml_escape_AmpersandLast(s) ==
    Replace(Replace(Replace(s, ">", <<"&", "g", "t", ";">>),
                    "<", <<"&", "l", "t", ";">>),
            "&", <<"&", "a", "m", "p", ";">>)

\* xml.sax.saxutils.escape: "&" first, then ">" and "<"
xml_escape(s) ==
    Replace(Replace(Replace(s, "&", <<"&", "a", "m", "p", ";">>),
                    ">", <<"&", "g", "t", ";">>),
            "<", <<"&", "l", "t", ";">>)

\* AtomBuilder.escape, lines 92-96
escape(value) == xml_escape(Utf8Encode(value))

\* line 125: self.escape(link).replace('"', '&quot;')
escape_href(link) == Replace(escape(link), "\"", <<"&", "q", "u", "o", "t", ";">>)

\* lines 255-259: u'<pre>{}</pre>'.format(xml_escape(text)), None without text
html_of_text(text) ==
    IF text # None
    THEN <<"<", "p", "r", "e", ">">> \o xml_escape(text) \o <<"<", "/", "p", "r", "e", ">">>
    ELSE None

\* ----------------------------------------------------------- hook calls
\* A call record: a hook of the builder, a repo.commit(hash) lookup or a
\* `git show` run.  direct: made by build_fragments itself, not by a hook.
HookCall(name, entry, direct) ==
    [kind |-> "hook", name |-> name, entry |-> entry, direct |-> direct]

RepoCall(hash) == [kind |-> "repo", name |-> "commit", entry |-> hash, direct |-> FALSE]

DiffCall(hash) == [kind |-> "diff", name |-> "git show", entry |-> hash, direct |-> FALSE]

\* what a call comes back with: a value, or an exception (err, status)
Ret(val, calls) == [err |-> "none", status |-> 0, val |-> val, calls |-> calls]

Raise(err, status, calls) == [err |-> err, status |-> status, val |-> None, calls |-> calls]

NoError == [name |-> "none", status |-> 0]

\* ------------------------------------------------------- commit fields
\* Commit.id, a hex string
IdText(c) == <<ToString(c)>>

\* Commit.commit_timezone, seconds east of UTC
CommitTz(c) == 3600 * c

\* Commit.message: blank-padded, a summary line, a body
Message(c) ==
    <<" ", "F", "<", "&", "\"", ">">> \o IdText(c) \o <<"\n", "\n", "b", "\n">>

\* Commit.author: every second commit has an empty name before the address
AuthorLine(c) ==
    IF c % 2 = 1 THEN <<"A", "&", " ", "<", "e", "@", "x", ">">>
    ELSE <<" ", "<", "e", "@", "x", ">">>

IsSpace(ch) == ch \in {" ", "\n"}

\* str.strip()
RECURSIVE LStrip(_)
LStrip(s) == IF s # <<>> /\ IsSpace(Head(s)) THEN LStrip(Tail(s)) ELSE s

RECURSIVE RStrip(_)
RStrip(s) ==
    IF s # <<>> /\ IsSpace(s[Len(s)]) THEN RStrip(SubSeq(s, 1, Len(s) - 1)) ELSE s

Strip(s) == RStrip(LStrip(s))

\* s.split(sep, 1)[0]
RECURSIVE SplitFirst(_, _)
SplitFirst(s, sep) ==
    IF s = <<>> \/ Head(s) = sep THEN <<>>
    ELSE <<Head(s)>> \o SplitFirst(Tail(s), sep)

\* parse_timestamp, lines 68-75: a datetime with a fixed offset
parse_timestamp(timestamp, timezone) == [ts |-> timestamp, tz |-> timezone]

\* max() over aware datetimes: compares instants, keeps the first maximum
RECURSIVE MaxDatetime(_)
MaxDatetime(ds) ==
    IF Len(ds) = 1 THEN ds[1]
    ELSE LET m == MaxDatetime(SubSeq(ds, 1, Len(ds) - 1))
         IN  IF ds[Len(ds)].ts > m.ts THEN ds[Len(ds)] ELSE m

\* --------------------------------------------------------------- hooks
\* GithubAtomBuilder.github_link, lines 324-325 (owner and repository given)
github_link == <<"h", ":", "/", "o", "&", "\"", "/", "r">>

\* GithubAtomBuilder.get_feed_link (328) or AtomBuilder.get_feed_link (220)
get_feed_link(direct) ==
    Ret(IF cfg.feedLink THEN github_link ELSE None,
        <<HookCall("get_feed_link", 0, direct)>>)

\* AtomBuilder.get_feed_id, lines 169-180, or an override returning an id
get_feed_id(direct) ==
    LET me == <<HookCall("get_feed_id", 0, direct)>>
        l  == get_feed_link(FALSE)
    IN  IF cfg.feedIdOverride THEN Ret(<<"u", "r", "n", ":", "f">>, me)
        ELSE IF l.val # None THEN Ret(l.val, me \o l.calls)
        ELSE Raise("NotImplementedError", 0, me \o l.calls)

\* GithubAtomBuilder.get_feed_title, lines 321-322
get_feed_title(direct) ==
    Ret(<<"L", " ", "o", "&", "\"", "/", "r">>, <<HookCall("get_feed_title", 0, direct)>>)

\* get_all_branches, lines 15-19
get_all_branches == heads

\* GitCommitsAtomBuilder.get_entries, lines 270-271: the walk, with each
\* repo.commit lookup it makes
get_entries(direct) ==
    LET st == WalkLoop(WalkStart(get_all_branches), parents, DefaultMaxCount)
    IN  Ret(WalkFinish(st, ctime, DefaultMaxCount),
            <<HookCall("get_entries", 0, direct)>>
                \o [i \in 1..Len(st.commits) |-> RepoCall(st.commits[i])])

\* GitCommitsAtomBuilder.get_entry_updated, lines 281-282
get_entry_updated(c, direct) ==
    Ret(parse_timestamp(ctime[c], CommitTz(c)),
        <<HookCall("get_entry_updated", c, direct)>>)

\* mutant: an empty feed gets the epoch instead of an error
DefaultFeedUpdated_EpochWhenEmpty(me, es) ==
    Ret(IF es.val = <<>> THEN parse_timestamp(0, 0)
        ELSE MaxDatetime([i \in 1..Len(es.val) |-> get_entry_updated(es.val[i], FALSE).val]),
        me \o es.calls
           \o [i \in 1..Len(es.val) |-> HookCall("get_entry_updated", es.val[i], FALSE)])

\* max() of no datetimes raises; otherwise the latest entry date
DefaultFeedUpdated(me, es) ==
    IF es.val = <<>> THEN Raise("ValueError", 0, me \o es.calls)
    ELSE Ret(MaxDatetime([i \in 1..Len(es.val) |-> get_entry_updated(es.val[i], FALSE).val]),
             me \o es.calls
                \o [i \in 1..Len(es.val) |-> HookCall("get_entry_updated", es.val[i], FALSE)])

\* AtomBuilder.get_feed_updated, lines 152-159, or an override returning a date
get_feed_updated(direct) ==
    LET me == <<HookCall("get_feed_updated", 0, direct)>>
    IN  IF cfg.feedUpdatedOverride THEN Ret(parse_timestamp(0, 0), me)
        ELSE DefaultFeedUpdated(me, get_entries(FALSE))

\* GithubAtomBuilder.get_entry_link (330-331) or AtomBuilder.get_entry_link (228)
get_entry_link(c, direct) ==
    Ret(IF linked[c]
        THEN github_link \o <<"/", "c", "o", "m", "m", "i", "t", "/">> \o IdText(c)
        ELSE None,
        <<HookCall("get_entry_link", c, direct)>>)

\* mutant: without a link the id is None instead of an error
DefaultEntryId_NoneWithoutLink(me, l) == Ret(l.val, me \o l.calls)

\* AtomBuilder.get_entry_id, lines 189-201
DefaultEntryId(me, l) ==
    IF l.val # None THEN Ret(l.val, me \o l.calls)
    ELSE Raise("NotImplementedError", 0, me \o l.calls)

\* GitCommitsAtomBuilder.get_entry_id (277-279) or the default
get_entry_id(c, direct) ==
    LET me == <<HookCall("get_entry_id", c, direct)>>
    IN  IF cfg.entryIdOverride THEN Ret(<<"g", "i", "t", ":">> \o IdText(c), me)
        ELSE DefaultEntryId(me, get_entry_link(c, FALSE))

\* GitCommitsAtomBuilder.get_entry_title, lines 273-275
get_entry_title(c, direct) ==
    Ret(SplitFirst(Strip(Message(c)), "\n"), <<HookCall("get_entry_title", c, direct)>>)

\* GitCommitsAtomBuilder.get_entry_author, lines 284-287
get_entry_author(c, direct) ==
    Ret(Strip(SplitFirst(AuthorLine(c), "<")), <<HookCall("get_entry_author", c, direct)>>)

\* stdout.decode('utf8') of the bytes `git show` printed
RECURSIVE Utf8Decode(_)
Utf8Decode(b) ==
    IF b = <<>> THEN <<>>
    ELSE IF Len(b) >= 2 /\ b[1] = "C3" /\ b[2] = "A9"
         THEN <<"U+E9">> \o Utf8Decode(Tail(Tail(b)))
         ELSE <<Head(b)>> \o Utf8Decode(Tail(b))

\* mutant: the return code of `git show` is not looked at
get_commit_diff_IgnoresStatus(c) == Ret(Utf8Decode(diff[c].out), <<DiffCall(c)>>)

\* GitCommitsAtomBuilder.get_commit_diff, lines 289-300
get_commit_diff(c) ==
    IF diff[c].rc # 0 THEN Raise("RuntimeError", diff[c].rc, <<DiffCall(c)>>)
    ELSE Ret(Utf8Decode(diff[c].out), <<DiffCall(c)>>)

\* GitCommitsAtomBuilder.get_entry_text_content, lines 302-303
get_entry_text_content(c, direct) ==
    LET d == get_commit_diff(c)
    IN  [d EXCEPT !.calls = <<HookCall("get_entry_text_content", c, direct)>> \o @]

\* AtomBuilder.get_entry_html_content, lines 247-259
get_entry_html_content(c, direct) ==
    LET t == get_entry_text_content(c, FALSE)
        me == <<HookCall("get_entry_html_content", c, direct)>>
    IN  IF t.err # "none" THEN [t EXCEPT !.calls = me \o @]
        ELSE Ret(html_of_text(t.val), me \o t.calls)

\* ----------------------------------------------------- build_fragments
\* A fragment: a literal piece of markup (by name), an escaped text value, or
\* the isoformat() rendering of a datetime (kept as the datetime).
NoDate == parse_timestamp(0, 0)

Lit(name) == [kind |-> "lit", name |-> name, bytes |-> <<>>, at |-> NoDate]

Text(name, bytes) == [kind |-> "text", name |-> name, bytes |-> bytes, at |-> NoDate]

Date(name, dt) == [kind |-> "date", name |-> name, bytes |-> <<>>, at |-> dt]

\* the generator before its first next(): no locals yet
NewFrame ==
    [pc |-> "start", ents |-> <<>>, idx |-> 0, link |-> None, author |-> None,
     content |-> None]

\* outcomes of resuming the generator
Yield(f, pc, frag, calls) ==
    [kind |-> "yield", frame |-> [f EXCEPT !.pc = pc], frag |-> frag, calls |-> calls,
     error |-> NoError]

Throw(f, r, calls) ==
    [kind |-> "raise", frame |-> [f EXCEPT !.pc = "raised"], frag |-> Lit("none"),
     calls |-> calls, error |-> [name |-> r.err, status |-> r.status]]

Stop(f) ==
    [kind |-> "stop", frame |-> [f EXCEPT !.pc = "finished"], frag |-> Lit("none"),
     calls |-> <<>>, error |-> NoError]

\* yield self.escape(<hook>()), the hook having come back with r
YieldEscaped(f, pc, name, r) ==
    IF r.err # "none" THEN Throw(f, r, r.calls)
    ELSE Yield(f, pc, Text(name, escape(r.val)), r.calls)

\* yield <hook>().isoformat()
YieldDate(f, pc, name, r) ==
    IF r.err # "none" THEN Throw(f, r, r.calls)
    ELSE Yield(f, pc, Date(name, r.val), r.calls)

Entry(f) == f.ents[f.idx]

\* lines 114-115 and 139: the for loop takes its next entry, or the feed closes
LoopNext(f, calls) ==
    IF f.idx < Len(f.ents)
    THEN Yield([f EXCEPT !.idx = @ + 1], "entry_open", Lit("  <entry>\n    <id>"), calls)
    ELSE Yield(f, "feed_close", Lit("</feed>"), calls)

\* line 114: for entry in self.get_entries()
LoopStart(f, calls) ==
    LET r == get_entries(TRUE)
    IN  LoopNext([f EXCEPT !.ents = r.val, !.idx = 0], calls \o r.calls)

\* mutant: the link is not kept in a local, the hook is asked again
FeedLink_CalledTwice(f) ==
    LET r == get_feed_link(TRUE)
    IN  IF r.val # None
        THEN Yield([f EXCEPT !.link = r.val], "link_open", Lit("  <link>"),
                   r.calls \o r.calls)
        ELSE LoopStart(f, r.calls \o r.calls)

\* lines 108-112
FeedLink(f) ==
    LET r == get_feed_link(TRUE)
    IN  IF r.val # None
        THEN Yield([f EXCEPT !.link = r.val], "link_open", Lit("  <link>"), r.calls)
        ELSE LoopStart(f, r.calls)

\* lines 132-137
EntryContent(f, calls) ==
    LET r == get_entry_html_content(Entry(f), TRUE)
    IN  IF r.err # "none" THEN Throw(f, r, calls \o r.calls)
        ELSE IF r.val # None
        THEN Yield([f EXCEPT !.content = r.val], "content_open",
                   Lit("    <content type=\"html\">"), calls \o r.calls)
        ELSE Yield(f, "entry_close", Lit("  </entry>\n"), calls \o r.calls)

\* lines 127-131
EntryAuthor(f, calls) ==
    LET r == get_entry_author(Entry(f), TRUE)
    IN  IF r.val # None
        THEN Yield([f EXCEPT !.author = r.val], "author_open",
                   Lit("    <author><name>"), calls \o r.calls)
        ELSE EntryContent(f, calls \o r.calls)

\* lines 122-126
EntryLink(f) ==
    LET r == get_entry_link(Entry(f), TRUE)
    IN  IF r.val # None
        THEN Yield([f EXCEPT !.link = r.val], "elink_open",
                   Lit("    <link href=\""), r.calls)
        ELSE EntryAuthor(f, r.calls)

\* next() on the generator: run from the yield it is suspended at (frame.pc
\* names it) to the next yield, to an exception, or to the end, lines 98-139
Resume(f) ==
    CASE f.pc = "start" ->
            Yield(f, "preamble", Lit("<?xml ...?>\n<feed xmlns=...>\n  <id>"), <<>>)
      [] f.pc = "preamble" -> YieldEscaped(f, "feed_id", "feed_id", get_feed_id(TRUE))
      [] f.pc = "feed_id" -> Yield(f, "id_close", Lit("</id>\n  <title>"), <<>>)
      [] f.pc = "id_close" ->
            YieldEscaped(f, "feed_title", "feed_title", get_feed_title(TRUE))
      [] f.pc = "feed_title" ->
            Yield(f, "title_close", Lit("</title>\n  <updated>"), <<>>)
      [] f.pc = "title_close" ->
            YieldDate(f, "feed_updated", "feed_updated", get_feed_updated(TRUE))
      [] f.pc = "feed_updated" -> Yield(f, "updated_close", Lit("</updated>\n"), <<>>)
      [] f.pc = "updated_close" -> FeedLink(f)
      [] f.pc = "link_open" ->
            Yield(f, "feed_link", Text("feed_link", escape(f.link)), <<>>)
      [] f.pc = "feed_link" -> Yield(f, "link_close", Lit("</link>\n"), <<>>)
      [] f.pc = "link_close" -> LoopStart(f, <<>>)
      [] f.pc = "entry_open" ->
            YieldEscaped(f, "entry_id", "entry_id", get_entry_id(Entry(f), TRUE))
      [] f.pc = "entry_id" -> Yield(f, "eid_close", Lit("</id>\n    <title>"), <<>>)
      [] f.pc = "eid_close" ->
            YieldEscaped(f, "entry_title", "entry_title", get_entry_title(Entry(f), TRUE))
      [] f.pc = "entry_title" ->
            Yield(f, "etitle_close", Lit("</title>\n    <updated>"), <<>>)
      [] f.pc = "etitle_close" ->
            YieldDate(f, "entry_updated", "entry_updated",
                      get_entry_updated(Entry(f), TRUE))
      [] f.pc = "entry_updated" -> Yield(f, "eupdated_close", Lit("</updated>\n"), <<>>)
      [] f.pc = "eupdated_close" -> EntryLink(f)
      [] f.pc = "elink_open" ->
            Yield(f, "entry_link", Text("entry_link", escape_href(f.link)), <<>>)
      [] f.pc = "entry_link" -> Yield(f, "elink_close", Lit("\"/>\n"), <<>>)
      [] f.pc = "elink_close" -> EntryAuthor(f, <<>>)
      [] f.pc = "author_open" ->
            Yield(f, "entry_author", Text("entry_author", escape(f.author)), <<>>)
      [] f.pc = "entry_author" ->
            Yield(f, "author_close", Lit("</name></author>\n"), <<>>)
      [] f.pc = "author_close" -> EntryContent(f, <<>>)
      [] f.pc = "content_open" ->
            Yield(f, "entry_content", Text("entry_content", escape(f.content)), <<>>)
      [] f.pc = "entry_content" -> Yield(f, "content_close", Lit("</content>\n"), <<>>)
      [] f.pc = "content_close" -> Yield(f, "entry_close", Lit("  </entry>\n"), <<>>)
      [] f.pc = "entry_close" -> LoopNext(f, <<>>)
      [] f.pc = "feed_close" -> Stop(f)

\* ------------------------------------------------------- idle values
NoDocument == [returned |-> FALSE, frags |-> <<>>]

\* the plain AtomBuilder defaults: no optional hook overridden
NoOverrides ==
    [feedLink |-> FALSE, feedIdOverride |-> FALSE,
     feedUpdatedOverride |-> FALSE, entryIdOverride |-> FALSE]

\* ---------------------------------------------------- walk: state machine
\* Histories: a DAG whose parent links point to higher ids, each commit with
\* at most two parents (a merge), plus at most one further link to an equal
\* or lower id (a self-loop, a cycle, or one more ordinary parent).
DagParents == {p \in [Commits -> DistinctSeqsUpTo(Commits, 2)] :
                  \A c \in Commits : \A i \in 1..Len(p[c]) : p[c][i] > c}

BackLinks == {<<a, b>> \in Commits \X Commits : b <= a}

WithLink(p, l) == [p EXCEPT ![l[1]] = Append(@, l[2])]

Histories == DagParents \cup {WithLink(p, l) : p \in DagParents, l \in BackLinks}

HeadLists == SeqsUpTo(Commits, 2)

WalkInit ==
    /\ parents \in Histories
    /\ ctime \in [Commits -> Times]
    /\ heads \in HeadLists
    /\ max_count \in 0..MaxCount
    /\ w = WalkStart(heads)
    /\ wpc = "loop"
    /\ result = <<>>
    /\ cfg = NoOverrides
    /\ linked = [c \in Commits |-> FALSE]
    /\ diff = [c \in Commits |-> [rc |-> 0, out |-> <<>>]]
    /\ frame = NewFrame
    /\ emitted = <<>>
    /\ hookLog = <<>>
    /\ last = <<>>
    /\ error = NoError
    /\ document = NoDocument
    /\ efield = "none"
    /\ evalue = <<>>
    /\ eout = <<>>

\* while queue: one iteration
Iterate ==
    /\ wpc = "loop"
    /\ w.queue # <<>>
    /\ w' = WalkStep(w, parents, max_count)
    /\ UNCHANGED <<parents, ctime, heads, max_count, wpc, result, feedVars, escVars>>

\* the queue is empty: sort, slice, return
Return ==
    /\ wpc = "loop"
    /\ w.queue = <<>>
    /\ result' = WalkFinish(w, ctime, max_count)
    /\ wpc' = "done"
    /\ UNCHANGED <<parents, ctime, heads, max_count, w, feedVars, escVars>>

WalkNext == Iterate \/ Return

\* get_latest_commits on its own
SpecWalk == WalkInit /\ [][WalkNext]_vars

\* The loop of lines 36-45 never reads commit_time: for its termination the
\* times are held at one assignment, and two heads come in one order.
LoopHeadLists == {h \in HeadLists : Len(h) = 2 => h[1] <= h[2]}

LoopInit ==
    /\ parents \in Histories
    /\ ctime = [c \in Commits |-> 1 + (c % 2)]
    /\ heads \in LoopHeadLists
    /\ max_count \in 0..MaxCount
    /\ w = WalkStart(heads)
    /\ wpc = "loop"
    /\ result = <<>>
    /\ cfg = NoOverrides
    /\ linked = [c \in Commits |-> FALSE]
    /\ diff = [c \in Commits |-> [rc |-> 0, out |-> <<>>]]
    /\ frame = NewFrame
    /\ emitted = <<>>
    /\ hookLog = <<>>
    /\ last = <<>>
    /\ error = NoError
    /\ document = NoDocument
    /\ efield = "none"
    /\ evalue = <<>>
    /\ eout = <<>>

\* the loop is a plain sequential loop: it keeps running until it returns
SpecWalkFair == LoopInit /\ [][WalkNext]_vars /\ WF_vars(WalkNext)

\* ---------------------------------------------------- feed: state machine
\* what `git show` can come back with: a patch, nothing, or a failure
DiffOutcomes ==
    {[rc |-> 0, out |-> <<"d", "<", "&", "C3", "A9">>],
     [rc |-> 0, out |-> <<>>],
     [rc |-> 128, out |-> <<>>]}

FeedCommits == 1..MaxEntries

\* a single branch: commit c has the parent c + 1
ChainParents == [c \in Commits |-> IF c < MaxEntries THEN <<c + 1>> ELSE <<>>]

\* the head is newer than its parent, the grandparent as new as the head
ChainTimes == [c \in Commits |-> 1 + (c % 2)]

FeedInit ==
    /\ cfg \in [feedLink : BOOLEAN, feedIdOverride : BOOLEAN,
                feedUpdatedOverride : BOOLEAN, entryIdOverride : BOOLEAN]
    /\ parents = ChainParents
    /\ ctime = ChainTimes
    /\ heads \in {<<>>} \cup {<<c>> : c \in FeedCommits}
    /\ \E l \in [FeedCommits -> BOOLEAN] :
           linked = [c \in Commits |-> c \in FeedCommits /\ l[c]]
    /\ \E d \in [FeedCommits -> DiffOutcomes] :
           diff = [c \in Commits |-> IF c \in FeedCommits THEN d[c]
                                     ELSE [rc |-> 0, out |-> <<>>]]
    /\ max_count = DefaultMaxCount
    /\ w = WalkStart(<<>>)
    /\ wpc = "idle"
    /\ result = <<>>
    /\ frame = NewFrame
    /\ emitted = <<>>
    /\ hookLog = <<>>
    /\ last = <<>>
    /\ error = NoError
    /\ document = NoDocument
    /\ efield = "none"
    /\ evalue = <<>>
    /\ eout = <<>>

IsHook(call) == call.kind = "hook"

Running == frame.pc \notin {"raised", "finished"}

\* build() pulls the next fragment and the generator yields one
PullYield ==
    /\ Running
    /\ \E r \in {Resume(frame)} :
           /\ r.kind = "yield"
           /\ frame' = r.frame
           /\ emitted' = Append(emitted, r.frag)
           /\ hookLog' = hookLog \o SelectSeq(r.calls, IsHook)
           /\ last' = r.calls
    /\ UNCHANGED <<cfg, linked, diff, error, document, walkVars, escVars>>

\* a hook raises: the exception leaves the generator and build()
PullRaise ==
    /\ Running
    /\ \E r \in {Resume(frame)} :
           /\ r.kind = "raise"
           /\ frame' = r.frame
           /\ error' = r.error
           /\ hookLog' = hookLog \o SelectSeq(r.calls, IsHook)
           /\ last' = r.calls
    /\ UNCHANGED <<cfg, linked, diff, emitted, document, walkVars, escVars>>

\* the generator is exhausted: ''.join returns the document, line 90
PullStop ==
    /\ Running
    /\ \E r \in {Resume(frame)} :
           /\ r.kind = "stop"
           /\ frame' = r.frame
           /\ document' = [returned |-> TRUE, frags |-> emitted]
           /\ last' = <<>>
    /\ UNCHANGED <<cfg, linked, diff, emitted, hookLog, error, walkVars, escVars>>

FeedNext == PullYield \/ PullRaise \/ PullStop

\* build() of one builder over one repository
SpecFeed == FeedInit /\ [][FeedNext]_vars

\* ------------------------------------------------- escaping: state machine
Alphabet == {"&", "<", ">", "\"", "l", "t", ";", "U+E9"}

Strings == SeqsUpTo(Alphabet, MaxLen)

EscapeInit ==
    /\ evalue \in Strings
    /\ efield = "none"
    /\ eout = <<>>
    /\ parents = [c \in Commits |-> <<>>]
    /\ ctime = [c \in Commits |-> 1]
    /\ heads = <<>>
    /\ max_count = DefaultMaxCount
    /\ w = WalkStart(<<>>)
    /\ wpc = "idle"
    /\ result = <<>>
    /\ cfg = NoOverrides
    /\ linked = [c \in Commits |-> FALSE]
    /\ diff = [c \in Commits |-> [rc |-> 0, out |-> <<>>]]
    /\ frame = NewFrame
    /\ emitted = <<>>
    /\ hookLog = <<>>
    /\ last = <<>>
    /\ error = NoError
    /\ document = NoDocument

\* lines 102, 104, 111, 116, 118, 130: yield self.escape(value)
EmitElementText ==
    /\ efield = "none"
    /\ efield' = "element"
    /\ eout' = escape(evalue)
    /\ UNCHANGED <<evalue, walkVars, feedVars>>

\* line 125: yield self.escape(link).replace('"', '&quot;')
EmitLinkHref ==
    /\ efield = "none"
    /\ efield' = "href"
    /\ eout' = escape_href(evalue)
    /\ UNCHANGED <<evalue, walkVars, feedVars>>

\* lines 132-135: content = get_entry_html_content(entry), the text content
\* being evalue; yield self.escape(content)
EmitContent ==
    /\ efield = "none"
    /\ evalue # None
    /\ efield' = "content"
    /\ eout' = escape(html_of_text(evalue))
    /\ UNCHANGED <<evalue, walkVars, feedVars>>

EscapeNext == EmitElementText \/ EmitLinkHref \/ EmitContent

\* one text value through the escaping of one field
SpecEscape == EscapeInit /\ [][EscapeNext]_vars

\* ------------------------------------------------------- graph notions
\* commits reachable from the set S through at most k parent links
RECURSIVE Near(_, _, _)
Near(S, par, k) ==
    IF k = 0 THEN S
    ELSE Near(S \cup UNION {Range(par[c]) : c \in S}, par, k - 1)

\* commits reachable from S through parent links
Reachable(S, par) == Near(S, par, NCommits)

NoDuplicates(s) == \A i, j \in 1..Len(s) : s[i] = s[j] => i = j

\* ------------------------------------------------------------- claims
\* C1: the result holds at most max_count commits and no commit id twice,
\* whatever the graph and the heads (repeated heads, shared ancestors).
C1_AtMostMaxCountDistinct ==
    wpc = "done" => Len(result) <= max_count /\ NoDuplicates(result)

\* a repeated head, or two different heads with a common ancestor, was walked
C1_Witness ==
    /\ wpc = "done"
    /\ Len(heads) = 2
    /\ Len(result) = 2
    /\ \/ heads[1] = heads[2]
       \/ /\ heads[1] # heads[2]
          /\ Reachable({heads[1]}, parents) \cap Reachable({heads[2]}, parents)
                 \cap Range(result) # {}

\* C2: the length of the result is min(max_count, number of distinct commits
\* reachable from the heads), although parents are enqueued only while
\* depth < max_count.
C2_LengthIsMin ==
    wpc = "done" =>
        Len(result) = Min(max_count, Cardinality(Reachable(Range(heads), parents)))

\* the depth bound cut the walk short of a reachable commit
C2_Witness ==
    /\ wpc = "done"
    /\ max_count > 0
    /\ w.seen # Reachable(Range(heads), parents)
    /\ Len(result) = max_count

\* C3 as stated: every returned commit is at least as recent as every
\* reachable commit that is not returned.
C3_MostRecentOfReachable ==
    wpc = "done" =>
        \A r \in Range(result) :
            \A c \in Reachable(Range(heads), parents) \ Range(result) :
                ctime[r] >= ctime[c]

\* C3 amended: every returned commit is at least as recent as every commit
\* that lies within max_count parent links of a head and is not returned.
C3_MostRecentWithinDepth ==
    wpc = "done" =>
        \A r \in Range(result) :
            \A c \in Near(Range(heads), parents, max_count) \ Range(result) :
                ctime[r] >= ctime[c]

\* a commit within the depth bound was left out, and a newer one lies beyond it
C3_Witness ==
    /\ wpc = "done"
    /\ result # <<>>
    /\ Near(Range(heads), parents, max_count) \ Range(result) # {}
    /\ \E c \in Reachable(Range(heads), parents) \ Near(Range(heads), parents, max_count) :
           \E r \in Range(result) : ctime[c] > ctime[r]

\* C4: the result is sorted by commit_time, newest first.
C4_SortedDescending ==
    wpc = "done" =>
        \A i \in 1..(Len(result) - 1) : ctime[result[i]] >= ctime[result[i + 1]]

\* the walk collected an older commit before a newer one, and both are returned
C4_Witness ==
    /\ wpc = "done"
    /\ Len(result) >= 2
    /\ Len(w.commits) >= 2
    /\ ctime[w.commits[1]] < ctime[w.commits[2]]
    /\ ctime[result[1]] > ctime[result[2]]

\* C10: the walk terminates on every history, cyclic ones included, and
\* resolves (repo.commit) each commit id at most once.
C10_TerminatesResolvingOnce ==
    /\ <>(wpc = "done")
    /\ [](\A c \in Commits : w.resolved[c] <= 1)

\* the walk returned after meeting a self-loop or a cycle
C10_Witness ==
    /\ wpc = "done"
    /\ \E c \in w.seen : c \in Reachable(Range(parents[c]), parents)
    /\ \E i \in 1..Len(heads) : w.resolved[heads[i]] = 1


\* ------------------------------------------------- feed: claim notions
IsDirectHook(call) == call.kind = "hook" /\ call.direct

IsExternal(call) == call.kind \in {"repo", "diff"}

IsDiff(call) == call.kind = "diff"

\* the hooks build_fragments calls itself, in call order
DirectLog == SelectSeq(hookLog, IsDirectHook)

FeedHooks ==
    <<"get_feed_id", "get_feed_title", "get_feed_updated", "get_feed_link", "get_entries">>

EntryHooks ==
    <<"get_entry_id", "get_entry_title", "get_entry_updated", "get_entry_link",
      "get_entry_author", "get_entry_html_content">>

\* the i-th hook call of a document in document order, and the entry it is for
DocumentHook(i) ==
    IF i <= Len(FeedHooks) THEN FeedHooks[i]
    ELSE EntryHooks[((i - Len(FeedHooks) - 1) % Len(EntryHooks)) + 1]

DocumentEntry(i) ==
    IF i <= Len(FeedHooks) THEN 0
    ELSE frame.ents[((i - Len(FeedHooks) - 1) \div Len(EntryHooks)) + 1]

PrefixOf(a, b) == Len(a) <= Len(b) /\ SubSeq(b, 1, Len(a)) = a

Names(frags) == [i \in 1..Len(frags) |-> frags[i].name]

Count(seq, x) == Cardinality({i \in 1..Len(seq) : seq[i] = x})

Terminated == frame.pc \in {"finished", "raised"}

\* C5 as stated: one pull triggers at most one hook call, that call at most
\* one repository access or diff retrieval, and the hook calls come in
\* document order.
C5_OneHookCallPerFragment ==
    /\ Len(SelectSeq(last, IsDirectHook)) <= 1
    /\ Len(SelectSeq(last, IsExternal)) <= 1
    /\ \A i \in 1..Len(DirectLog) : DirectLog[i].name = DocumentHook(i)

\* C5 amended: the hooks build_fragments calls come in document order (feed
\* id, title, updated, link, get_entries, then per entry id, title, updated,
\* link, author, content), each for the entry the document is at; one pull
\* makes at most three of them and at most one diff retrieval.
C5_DirectHooksInDocumentOrder ==
    /\ \A i \in 1..Len(DirectLog) :
           DirectLog[i].name = DocumentHook(i) /\ DirectLog[i].entry = DocumentEntry(i)
    /\ Len(SelectSeq(last, IsDirectHook)) <= 3
    /\ Len(SelectSeq(last, IsDiff)) <= 1

\* the second entry has no link, no author and no content: one pull asked
\* three hooks, after an earlier pull resolved several commits
C5_Witness ==
    /\ frame.pc = "entry_close"
    /\ frame.idx = 2
    /\ Len(SelectSeq(last, IsDirectHook)) = 3
    /\ ~cfg.feedUpdatedOverride

\* C6: a failing diff retrieval is never swallowed.  build() raises with the
\* status and returns no document; the stream stops inside that entry before
\* its content, so no later entry and no </feed> follow; what was handed out
\* stays handed out.
C6_FailureState ==
    /\ error.name = "RuntimeError" =>
           /\ frame.pc = "raised"
           /\ frame.idx >= 1
           /\ diff[Entry(frame)].rc # 0
           /\ error.status = diff[Entry(frame)].rc
           /\ document = NoDocument
           /\ emitted[Len(emitted)].name \in {"</updated>\n", "\"/>\n", "</name></author>\n"}
           /\ Count(Names(emitted), "  <entry>\n    <id>") = frame.idx
           /\ Count(Names(emitted), "</feed>") = 0
    /\ frame.idx >= 1 /\ diff[Entry(frame)].rc # 0 =>
           frame.pc \notin {"content_open", "entry_content", "content_close", "entry_close"}
    /\ document.returned => \A i \in 1..Len(frame.ents) : diff[frame.ents[i]].rc = 0

C6_FailureStep ==
    /\ PrefixOf(emitted, emitted')
    /\ error'.name = "RuntimeError" => emitted' = emitted

C6_DiffFailurePropagates == [](C6_FailureState) /\ [][C6_FailureStep]_vars

\* `git show` failed with 128 on the second entry, after the first was emitted
C6_Witness ==
    /\ error = [name |-> "RuntimeError", status |-> 128]
    /\ frame.idx = 2
    /\ Count(Names(emitted), "  </entry>\n") = 1

\* C7: with the default get_entry_id, an entry with a link is emitted with
\* that link as its id, and an entry without a link ends the build with
\* NotImplementedError before any id is emitted for it.
C7_DefaultEntryIdIsLink ==
    ~cfg.entryIdOverride /\ frame.idx >= 1 =>
        /\ frame.pc = "entry_id" =>
               /\ linked[Entry(frame)]
               /\ emitted[Len(emitted)] =
                      Text("entry_id", escape(get_entry_link(Entry(frame), FALSE).val))
        /\ ~linked[Entry(frame)] =>
               /\ frame.pc \in {"entry_open", "raised"}
               /\ frame.pc = "raised" => error.name = "NotImplementedError"
               /\ document = NoDocument

\* the first entry went out with its link as id, the second has no link
C7_Witness ==
    /\ ~cfg.entryIdOverride
    /\ frame.pc = "raised"
    /\ frame.idx = 2
    /\ error.name = "NotImplementedError"
    /\ Count(Names(emitted), "entry_id") = 1

ZeroEntries == get_entries(FALSE).val = <<>>

StartsWith(b, p) == Len(b) >= Len(p) /\ SubSeq(b, 1, Len(p)) = p

Drop(b, n) == SubSeq(b, n + 1, Len(b))

Entities ==
    {<<<<"&", "a", "m", "p", ";">>, "&">>, <<<<"&", "l", "t", ";">>, "<">>,
     <<<<"&", "g", "t", ";">>, ">">>, <<<<"&", "q", "u", "o", "t", ";">>, "\"">>}

\* what an XML parser reads back from character data or an attribute value
RECURSIVE XmlUnescape(_)
XmlUnescape(b) ==
    IF b = <<>> THEN <<>>
    ELSE IF \E e \in Entities : StartsWith(b, e[1])
         THEN LET e == CHOOSE x \in Entities : StartsWith(b, x[1])
              IN  <<e[2]>> \o XmlUnescape(Drop(b, Len(e[1])))
         ELSE <<Head(b)>> \o XmlUnescape(Tail(b))

\* no byte of b opens or closes a tag or starts anything but an entity
NoRawMarkup(b) ==
    \A i \in 1..Len(b) :
        /\ b[i] \notin {"<", ">"}
        /\ b[i] = "&" => \E e \in Entities : StartsWith(Drop(b, i - 1), e[1])

\* the text inside <pre>...</pre>
InsidePre(h) == SubSeq(h, 6, Len(h) - 6)

\* C9: the bytes emitted for a text value hold no raw "<", ">" or "&" (and
\* no raw '"' in the href attribute), and parsing them gives the value back;
\* for content that value is the <pre> HTML, whose text is the text content.
C9_EscapingRoundTrip ==
    efield # "none" =>
        /\ NoRawMarkup(eout)
        /\ efield = "href" => \A i \in 1..Len(eout) : eout[i] # "\""
        /\ efield \in {"element", "href"} => Utf8Decode(XmlUnescape(eout)) = evalue
        /\ efield = "content" =>
               /\ Utf8Decode(XmlUnescape(eout)) = html_of_text(evalue)
               /\ XmlUnescape(InsidePre(Utf8Decode(XmlUnescape(eout)))) = evalue

\* a value that already looks like an entity went through the href escaping
C9_Witness ==
    /\ efield = "href"
    /\ evalue = <<"\"", "&", "l", "t">>
    /\ eout = <<"&", "q", "u", "o", "t", ";", "&", "a", "m", "p", ";", "l", "t">>

=============================================================================
